---- MODULE Spec2Model ----
(***************************************************************************)
(* Model of discord_bridge.py: the three cursor files (.state/last_read,   *)
(* .state/last_interaction, .state/last_send), the channel of the remote   *)
(* message store, and the commands that read and write them.               *)
(*                                                                         *)
(* Scaling.  Wall-clock time is a counter of ticks; the rate-limit         *)
(* interval and the --since window are counted in the same ticks.  The     *)
(* page sizes 50 and 10 of the code are scaled to PageLimit and            *)
(* DefaultLimit, keeping DefaultLimit < PageLimit < MaxMsgs so that a      *)
(* page can be full with messages left over.                               *)
(*                                                                         *)
(* Remote store.  get_messages asks discord.com/api/v10 for a page; the    *)
(* endpoint answers newest first, and with after=X it answers the `limit`  *)
(* oldest messages above X, still newest first.  native_asc = TRUE is the  *)
(* other convention (the page after a cursor in ascending order).          *)
(*                                                                         *)
(* Specifications.  Spec: the commands run one at a time.  SpecOrder: the  *)
(* polls against a store of the other convention.  SpecPolls: the polls    *)
(* with the history of what they returned.  SpecRace: two polls at once.   *)
(* SpecCrash: processes killed while they write a cursor file.  SpecFrame: *)
(* the commands with the deletes.  SpecWatch, SpecProgress: the watch      *)
(* loop, free and fair.                                                    *)
(*                                                                         *)
(* str(time.time()) / float(text) and write_text(id) / read_text().strip() *)
(* are exact round trips on the values the code writes (Python prints the  *)
(* shortest repr that reads back to the same float; ids are digit strings  *)
(* without blanks), so a stored cursor is the value written.               *)
(***************************************************************************)
EXTENDS Integers, Sequences, FiniteSets, TLC

VARIABLES remote, now, last_read, last_interaction, last_send,
          BOT_ID, ALLOWED_USERS, native_asc, last, prior, surfaced, race

cursors == <<last_read, last_interaction, last_send>>
config  == <<BOT_ID, ALLOWED_USERS, native_asc>>
aux     == <<surfaced, race>>
vars    == <<remote, now, last_read, last_interaction, last_send,
             BOT_ID, ALLOWED_USERS, native_asc, last, prior, surfaced, race>>

(* ------------------------------ bounds --------------------------------- *)
MaxMsgs == 4
MaxTime == 1

(* ------------------------- program constants --------------------------- *)
PageLimit == 2
DefaultLimit == 1
MIN_SEND_INTERVAL_SECONDS == 1
DefaultSince == 1

DeleteCount == 1
ContextLimit == 2

Absent == -1
Empty == -2
NoId == "none"
OwnId == "bot"
Authors == {"bot", "u42", "u99"}
GlobalName == [a \in Authors |-> IF a = "u42" THEN "Ann" ELSE ""]
Username == [a \in Authors |-> IF a = "bot" THEN "bridge" ELSE IF a = "u42" THEN "ann42" ELSE "zed99"]
EmptyAllow == [a \in {} |-> ""]
AllowLists == {EmptyAllow, [a \in {"u42"} |-> "Alice"]}
SinceOpts == {0, DefaultSince}
ReplyTargets == {1, 2}
DeleteTargets == {1, 2}
Gone == "gone"
Procs == {1, 2}

(* ------------------------------ sequences ------------------------------ *)
Reverse(s) == [i \in 1..Len(s) |-> s[Len(s) + 1 - i]]
FirstN(s, n) == SubSeq(s, 1, IF Len(s) < n THEN Len(s) ELSE n)
LastN(s, n) == SubSeq(s, IF Len(s) < n THEN 1 ELSE Len(s) - n + 1, Len(s))
Ids(s) == {s[i].id : i \in 1..Len(s)}
MaxId(s) == IF s = <<>> THEN Absent ELSE CHOOSE m \in Ids(s) : \A k \in Ids(s) : k <= m

(* ----------------------------- remote store ---------------------------- *)
(* A deleted message leaves the channel; its id is not given again.        *)
Live(m) == m.author # Gone
AboveCursor(m, after) == m.id > after
RemotePage(limit, after) ==
    LET above(m) == AboveCursor(m, after)
        channel == SelectSeq(remote, Live)
        chosen == IF after = Absent THEN LastN(channel, limit)
                  ELSE FirstN(SelectSeq(channel, above), limit)
    IN  IF after # Absent /\ native_asc THEN chosen ELSE Reverse(chosen)

get_messages(limit, after, ok) == IF ok THEN RemotePage(limit, after) ELSE <<>>

NewMessage(a) == [id |-> Len(remote) + 1, author |-> a, ts |-> now]

(* ------------------------------- filters ------------------------------- *)
NotSelf_inverted(m) == m.author = BOT_ID
NotSelf(m) == m.author # BOT_ID
ExcludeSelf(msgs) == IF BOT_ID # NoId THEN SelectSeq(msgs, NotSelf) ELSE msgs

TimeFilter(msgs, since) ==
    LET recent(m) == m.ts > now - since
    IN  IF since # 0 THEN SelectSeq(msgs, recent) ELSE msgs

is_allowed_user_strict(user_id) == user_id \in DOMAIN ALLOWED_USERS
is_allowed_user(user_id) ==
    IF DOMAIN ALLOWED_USERS = {} THEN TRUE ELSE user_id \in DOMAIN ALLOWED_USERS

DisplayName(a) == IF GlobalName[a] # "" THEN GlobalName[a] ELSE Username[a]

get_user_label(m) ==
    IF m.author \in DOMAIN ALLOWED_USERS THEN ALLOWED_USERS[m.author]
    ELSE DisplayName(m.author)

Permitted(m) == (BOT_ID = NoId \/ NotSelf(m)) /\ is_allowed_user(m.author)
InteractionFilter(msgs) == SelectSeq(msgs, Permitted)

InteractionResult(m) ==
    [id |-> m.id, author |-> get_user_label(m), author_id |-> m.author, ts |-> m.ts]
UnreadResult(m) ==
    [id |-> m.id, author |-> DisplayName(m.author), author_id |-> m.author, ts |-> m.ts]

(* The id a poll writes to its cursor file: messages[-1]['id'] / pending[-1]['id'] *)
CursorToWrite_first(msgs) == msgs[1].id
CursorToWrite(msgs) == msgs[Len(msgs)].id

(* --------------------------- observations ----------------------------- *)
(* Every command is one run of the script (__main__, 397-468): the process *)
(* starts, runs the command, prints what it returns, and exits.            *)
(* last: what the running process did; NoEvent when none is running.       *)
(*   op      the command                                                   *)
(*   flag    force (send, reply) or mark_read (interactions)               *)
(*   before  the value of the command's cursor file when it started        *)
(*   since   the time window (0: none)                                     *)
(*   page    the result of the fetch step, in the order the store answered *)
(*   out     what the command returned                                     *)
(*   resp    the store answered the command's request with success         *)
(*   outcome "ok" | "fetch_error" | "sent" | "error" | "rate_limited"      *)
(*   posted  the command issued a create-call                              *)
(*   wait    wait_seconds of a rate_limited outcome                        *)
(*   ref     the message_reference of the create-call (0: none)            *)
(*   rep     prior, as the command found it                                *)
(* prior: the `interactions` run with mark_read that came last, when no    *)
(* other command ran and no message was created since: its time window,    *)
(* whether its fetch succeeded, whether the fetch after a cursor returned  *)
(* a full page, whether it wrote the cursor.  NoPoll otherwise.            *)
Event(op, flag, before, since, page, out, resp, outcome, posted, wait, ref, rep) ==
    [op |-> op, flag |-> flag, before |-> before, since |-> since, page |-> page,
     out |-> out, resp |-> resp, outcome |-> outcome, posted |-> posted,
     wait |-> wait, ref |-> ref, rep |-> rep]
NoPoll == [since |-> -1, ok |-> FALSE, full |-> FALSE, wrote |-> FALSE]
NoEvent == Event("none", FALSE, Absent, 0, <<>>, <<>>, FALSE, "none", FALSE, 0, 0, NoPoll)
Idle == last = NoEvent

(* surfaced: when kept (on), the ids the cursor-advancing polls returned,  *)
(* per cursor: read_unread, and check_interactions with mark_read.         *)
History(on) == [on |-> on, unread |-> {}, interactions |-> {}]
Surface(cursor, out) ==
    IF surfaced.on THEN [surfaced EXCEPT ![cursor] = @ \cup Ids(out)] ELSE surfaced

(* race: two invocations of a poll run as two processes (Procs), each at   *)
(* one of the statements between which another process can run: before    *)
(* the cursor file is read ("off"), before the fetch ("fetch"), before the *)
(* cursor file is written ("write"), after it ("done").                    *)
(*   op, after, msgs  what the process runs, the cursor it read, the       *)
(*                    filtered messages it holds                           *)
(*   high             per cursor, the highest id written to its file       *)
(*   overlapped       a process read the cursor while the other was        *)
(*                    between its read and its write                       *)
NoRace ==
    [pc |-> [p \in Procs |-> "off"], op |-> [p \in Procs |-> "none"],
     after |-> [p \in Procs |-> Absent], msgs |-> [p \in Procs |-> <<>>],
     high |-> [unread |-> Absent, interactions |-> Absent], overlapped |-> FALSE]
(* The watch loop (210-219) is a process that stays: between two polls it  *)
(* sleeps, and it is over when an exception has left the loop.             *)
Watching == last.op = "watch"
Sleeping == Watching /\ last.outcome = "slept"
Ended == Watching => last.outcome \in {"traceback", "interrupted"}
Quiet == Idle \/ Sleeping

(* A fresh checkout: no .state file, an empty channel, the configuration   *)
(* of the environment.  asc: the convention of the store; on: whether the  *)
(* history of surfaced ids is kept.                                        *)
Start(asc, on) ==
    /\ remote = <<>>
    /\ now = 0
    /\ last_read = Absent
    /\ last_interaction = Absent
    /\ last_send = Absent
    /\ BOT_ID \in {NoId, OwnId}
    /\ ALLOWED_USERS \in AllowLists
    /\ native_asc = asc
    /\ last = NoEvent
    /\ prior = NoPoll
    /\ surfaced = History(on)
    /\ race = NoRace

Init == Start(FALSE, FALSE)

(* ------------------------------ environment ---------------------------- *)
Tick ==
    /\ Quiet
    /\ now < MaxTime
    /\ now' = now + 1
    /\ UNCHANGED <<remote, cursors, config, last, prior, aux>>

Create(a) ==
    /\ Quiet
    /\ Len(remote) < MaxMsgs
    /\ remote' = Append(remote, NewMessage(a))
    /\ prior' = NoPoll
    /\ UNCHANGED <<now, cursors, config, last, aux>>

Exit ==
    /\ ~Idle
    /\ Ended
    /\ last' = NoEvent
    /\ UNCHANGED <<remote, now, cursors, config, prior, aux>>

(* ------------------------------- commands ------------------------------ *)
(* `if after`: a cursor file that is missing (None) or empty ("") gives no *)
(* cursor.                                                                 *)
Truthy(after) == after # Absent /\ after # Empty

(* The fetch step of read_unread (155-159).                                *)
UnreadFetch(after, ok) ==
    IF Truthy(after) THEN get_messages(PageLimit, after, ok)
    ELSE get_messages(DefaultLimit, Absent, ok)
UnreadPage(ok) == UnreadFetch(last_read, ok)

read_unread(ok) ==
    LET page == UnreadPage(ok)
        messages == Reverse(ExcludeSelf(page))
        out == [i \in 1..Len(messages) |-> UnreadResult(messages[i])]
    IN  /\ Idle
        /\ last_read' = IF messages # <<>> THEN CursorToWrite(messages) ELSE last_read
        /\ last' = Event("unread", FALSE, last_read, 0, page, out, ok,
                         IF ok THEN "ok" ELSE "fetch_error", FALSE, 0, 0, NoPoll)
        /\ prior' = NoPoll
        /\ surfaced' = Surface("unread", out)
        /\ UNCHANGED <<remote, now, last_interaction, last_send, config, race>>

read_messages(since, ok) ==
    LET page == get_messages(PageLimit, Absent, ok)
        messages == Reverse(ExcludeSelf(TimeFilter(page, since)))
        out == [i \in 1..Len(messages) |-> UnreadResult(messages[i])]
    IN  /\ Idle
        /\ last_read' = IF messages # <<>> THEN CursorToWrite(messages) ELSE last_read
        /\ last' = Event("read", FALSE, last_read, since, page, out, ok,
                         IF ok THEN "ok" ELSE "fetch_error", FALSE, 0, 0, NoPoll)
        /\ prior' = NoPoll
        /\ UNCHANGED <<remote, now, last_interaction, last_send, config, aux>>

(* Step 2 of the poll: the page of get_pending_interactions before the     *)
(* self / allow-list filter (296-309).                                     *)
InteractionFetch(after, since, ok) ==
    IF Truthy(after) THEN get_messages(PageLimit, after, ok)
    ELSE TimeFilter(get_messages(PageLimit, Absent, ok), since)
InteractionPage(since, ok) == InteractionFetch(last_interaction, since, ok)

PendingAfter(after, since, ok) ==
    LET messages == Reverse(InteractionFilter(InteractionFetch(after, since, ok)))
    IN  [i \in 1..Len(messages) |-> InteractionResult(messages[i])]
get_pending_interactions(since, ok) == PendingAfter(last_interaction, since, ok)

check_interactions_marking(since, mark_read, ok) ==
    LET pending == get_pending_interactions(since, ok)
        page == InteractionPage(since, ok)
        wrote == pending # <<>>
    IN  /\ Idle
        /\ last_interaction' = IF wrote THEN CursorToWrite(pending) ELSE last_interaction
        /\ last' = Event("interactions", mark_read, last_interaction, since, page, pending,
                         ok, IF ok THEN "ok" ELSE "fetch_error", FALSE, 0, 0, prior)
        /\ prior' = NoPoll
        /\ surfaced' = Surface("interactions", pending)
        /\ UNCHANGED <<remote, now, last_read, last_send, config, race>>
check_interactions(since, mark_read, ok) ==
    LET pending == get_pending_interactions(since, ok)
        page == InteractionPage(since, ok)
        wrote == mark_read /\ pending # <<>>
    IN  /\ Idle
        /\ last_interaction' = IF wrote THEN CursorToWrite(pending) ELSE last_interaction
        /\ last' = Event("interactions", mark_read, last_interaction, since, page, pending,
                         ok, IF ok THEN "ok" ELSE "fetch_error", FALSE, 0, 0, prior)
        /\ prior' = IF mark_read
                    THEN [since |-> since, ok |-> ok,
                          full |-> Truthy(last_interaction) /\ Len(page) = PageLimit,
                          wrote |-> wrote]
                    ELSE NoPoll
        /\ surfaced' = IF mark_read THEN Surface("interactions", pending) ELSE surfaced
        /\ UNCHANGED <<remote, now, last_read, last_send, config, race>>

(* The send gate shared by send_message (185-193) and reply_to (357-364).  *)
Remaining_swapped(sent) == (now - sent) - MIN_SEND_INTERVAL_SECONDS
Remaining(sent) == MIN_SEND_INTERVAL_SECONDS - (now - sent)
RateLimited_noforce(force) ==
    last_send # Absent /\ Remaining(last_send) > 0
RateLimited(force) ==
    last_send # Absent /\ ~force /\ Remaining(last_send) > 0

(* requests.post and what follows it (195-207, 366-381).  A created        *)
(* message is the bridge's own: its author is the identity of the token.   *)
Post_always(op, force, ref, ok) ==
    /\ ok => Len(remote) < MaxMsgs
    /\ remote' = IF ok THEN Append(remote, NewMessage(OwnId)) ELSE remote
    /\ last_send' = now
    /\ last' = Event(op, force, last_send, 0, <<>>, <<>>, ok,
                     IF ok THEN "sent" ELSE "error", TRUE, 0, ref, NoPoll)
Post(op, force, ref, ok) ==
    /\ ok => Len(remote) < MaxMsgs
    /\ remote' = IF ok THEN Append(remote, NewMessage(OwnId)) ELSE remote
    /\ last_send' = IF ok THEN now ELSE last_send
    /\ last' = Event(op, force, last_send, 0, <<>>, <<>>, ok,
                     IF ok THEN "sent" ELSE "error", TRUE, 0, ref, NoPoll)

(* float("") raises ValueError: the gate read an empty last_send.          *)
Unparsable(force) == last_send = Empty /\ ~force
Raise(op, force, ref) ==
    /\ last' = Event(op, force, last_send, 0, <<>>, <<>>, FALSE, "traceback", FALSE,
                     0, ref, NoPoll)
    /\ UNCHANGED <<remote, last_send>>

Reject(op, force, ref) ==
    /\ last' = Event(op, force, last_send, 0, <<>>, <<>>, FALSE, "rate_limited", FALSE,
                     Remaining(last_send), ref, NoPoll)
    /\ UNCHANGED <<remote, last_send>>

send_message(force, ok) ==
    /\ Idle
    /\ IF Unparsable(force) THEN Raise("send", force, 0)
       ELSE IF RateLimited(force) THEN Reject("send", force, 0)
       ELSE Post("send", force, 0, ok)
    /\ prior' = NoPoll
    /\ UNCHANGED <<now, last_read, last_interaction, config, aux>>

(* A reply to an id the channel does not hold is refused by the store.     *)
reply_to(message_id, force, ok) ==
    /\ Idle
    /\ ok => message_id <= Len(remote)
    /\ IF Unparsable(force) THEN Raise("reply", force, message_id)
       ELSE IF RateLimited(force) THEN Reject("reply", force, message_id)
       ELSE Post("reply", force, message_id, ok)
    /\ prior' = NoPoll
    /\ UNCHANGED <<now, last_read, last_interaction, config, aux>>

Next ==
    \/ Tick
    \/ Exit
    \/ \E a \in Authors : Create(a)
    \/ \E ok \in BOOLEAN : read_unread(ok)
    \/ \E since \in SinceOpts, ok \in BOOLEAN : read_messages(since, ok)
    \/ \E since \in SinceOpts, mark \in BOOLEAN, ok \in BOOLEAN : check_interactions(since, mark, ok)
    \/ \E force \in BOOLEAN, ok \in BOOLEAN : send_message(force, ok)
    \/ \E mid \in ReplyTargets, force \in BOOLEAN, ok \in BOOLEAN : reply_to(mid, force, ok)

Spec == Init /\ [][Next]_vars

(* watch (210-219): `while True: read_unread(); time.sleep(interval)`.     *)
(* requests.get (96) answers with a status, or raises when the store       *)
(* cannot be reached; nothing between get_messages and the loop catches    *)
(* the exception.  Ctrl+C raises KeyboardInterrupt in the loop.            *)
Responses == {"ok", "status", "unreachable"}
WatchEvent(before, page, out, resp, outcome) ==
    Event("watch", FALSE, before, 0, page, out, resp, outcome, FALSE, 0, 0, NoPoll)

watch ==
    /\ Idle
    /\ last' = WatchEvent(last_read, <<>>, <<>>, FALSE, "started")
    /\ prior' = NoPoll
    /\ UNCHANGED <<remote, now, cursors, config, aux>>

watch_poll(response) ==
    LET ok == response = "ok"
        page == UnreadPage(ok)
        messages == Reverse(ExcludeSelf(page))
        out == [i \in 1..Len(messages) |-> UnreadResult(messages[i])]
    IN  /\ Watching
        /\ last.outcome \in {"started", "slept"}
        /\ IF response = "unreachable"
           THEN /\ last' = WatchEvent(last_read, <<>>, <<>>, FALSE, "traceback")
                /\ UNCHANGED last_read
           ELSE /\ last_read' = IF messages # <<>> THEN CursorToWrite(messages) ELSE last_read
                /\ last' = WatchEvent(last_read, page, out, ok,
                                      IF ok THEN "ok" ELSE "fetch_error")
        /\ surfaced' = IF response = "unreachable" THEN surfaced ELSE Surface("unread", out)
        /\ UNCHANGED <<remote, now, last_interaction, last_send, config, prior, race>>

watch_sleep ==
    /\ Watching
    /\ last.outcome \in {"ok", "fetch_error"}
    /\ last' = WatchEvent(last_read, <<>>, <<>>, FALSE, "slept")
    /\ UNCHANGED <<remote, now, cursors, config, prior, aux>>

KeyboardInterrupt ==
    /\ Watching
    /\ ~Ended
    /\ last' = WatchEvent(last_read, <<>>, <<>>, FALSE, "interrupted")
    /\ UNCHANGED <<remote, now, cursors, config, prior, aux>>

NextWatch ==
    \/ Tick
    \/ Exit
    \/ \E a \in Authors : Create(a)
    \/ watch
    \/ \E response \in Responses : watch_poll(response)
    \/ watch_sleep
    \/ KeyboardInterrupt

SpecWatch == Init /\ [][NextWatch]_vars

(* The polls against a store that keeps the Channel Reader contract of the *)
(* specification: the newest page newest first when no cursor is given,    *)
(* the page after a cursor oldest first.                                   *)
InitOrder == Start(TRUE, FALSE)

NextOrder ==
    \/ Exit
    \/ \E a \in Authors : Create(a)
    \/ \E ok \in BOOLEAN : read_unread(ok)
    \/ \E since \in SinceOpts, mark \in BOOLEAN, ok \in BOOLEAN : check_interactions(since, mark, ok)

SpecOrder == InitOrder /\ [][NextOrder]_vars

(* The cursor-advancing polls of one user at a time, with the history of   *)
(* what they returned.                                                     *)
Filtering == BOT_ID = OwnId /\ DOMAIN ALLOWED_USERS # {}
InitPolls == Start(FALSE, TRUE) /\ Filtering
NextPolls ==
    \/ Tick
    \/ Exit
    \/ \E a \in Authors : Create(a)
    \/ \E ok \in BOOLEAN : read_unread(ok)
    \/ \E since \in SinceOpts, ok \in BOOLEAN : check_interactions(since, TRUE, ok)

SpecPolls == InitPolls /\ [][NextPolls]_vars

(* ------------------------ two polls at the same time ------------------- *)
(* read_unread (155-178) and check_interactions with its defaults (296-350)*)
(* run by two processes.  Nothing in the code takes a lock: a process is   *)
(* free to take its next step whatever the other is doing.                 *)
CursorOf(op) == IF op = "unread" THEN last_read ELSE last_interaction
Higher(a, b) == IF a > b THEN a ELSE b

race_start_locked(p, op) ==
    /\ Idle
    /\ race.pc[p] = "off"
    /\ \A q \in Procs : race.pc[q] \notin {"fetch", "write"}
    /\ race' = [race EXCEPT !.pc[p] = "fetch", !.op[p] = op, !.after[p] = CursorOf(op)]
    /\ UNCHANGED <<remote, now, cursors, config, last, prior, surfaced>>
race_start(p, op) ==
    /\ Idle
    /\ race.pc[p] = "off"
    /\ race' = [race EXCEPT !.pc[p] = "fetch", !.op[p] = op, !.after[p] = CursorOf(op),
                            !.overlapped = @ \/ \E q \in Procs \ {p} :
                                                   race.pc[q] \in {"fetch", "write"}]
    /\ UNCHANGED <<remote, now, cursors, config, last, prior, surfaced>>

race_fetch(p, ok) ==
    LET messages == Reverse(ExcludeSelf(UnreadFetch(race.after[p], ok)))
        unread == [i \in 1..Len(messages) |-> UnreadResult(messages[i])]
        pending == PendingAfter(race.after[p], DefaultSince, ok)
    IN  /\ race.pc[p] = "fetch"
        /\ race' = [race EXCEPT !.pc[p] = "write",
                                !.msgs[p] = IF race.op[p] = "unread" THEN unread ELSE pending]
        /\ UNCHANGED <<remote, now, cursors, config, last, prior, surfaced>>

race_write(p) ==
    LET msgs == race.msgs[p]
        op == race.op[p]
    IN  /\ race.pc[p] = "write"
        /\ last_read' = IF op = "unread" /\ msgs # <<>> THEN CursorToWrite(msgs)
                        ELSE last_read
        /\ last_interaction' = IF op = "interactions" /\ msgs # <<>> THEN CursorToWrite(msgs)
                               ELSE last_interaction
        /\ race' = [race EXCEPT !.pc[p] = "done",
                                !.high[op] = IF msgs # <<>> THEN Higher(@, CursorToWrite(msgs))
                                             ELSE @]
        /\ UNCHANGED <<remote, now, last_send, config, last, prior, surfaced>>

NextRace ==
    \/ Tick
    \/ \E a \in Authors : Create(a)
    \/ \E p \in Procs, op \in {"unread", "interactions"} : race_start(p, op)
    \/ \E p \in Procs, ok \in BOOLEAN : race_fetch(p, ok)
    \/ \E p \in Procs : race_write(p)

SpecRace == Init /\ [][NextRace]_vars

(* ------------------------ a process killed in a write ------------------ *)
(* Path.write_text opens the file for writing, which empties it, writes    *)
(* the text and closes the file.  A process killed in the call leaves the  *)
(* file as it was, empty, or written.                                      *)
write_text_killed(old, new) == {old, Empty, new}

killed_read_unread ==
    LET page == UnreadPage(TRUE)
        messages == Reverse(ExcludeSelf(page))
        out == [i \in 1..Len(messages) |-> UnreadResult(messages[i])]
    IN  /\ Idle
        /\ messages # <<>>
        /\ last_read' \in write_text_killed(last_read, CursorToWrite(messages))
        /\ last' = Event("unread", FALSE, last_read, 0, page, out, TRUE, "killed",
                         FALSE, 0, 0, NoPoll)
        /\ prior' = NoPoll
        /\ surfaced' = Surface("unread", out)
        /\ UNCHANGED <<remote, now, last_interaction, last_send, config, race>>

killed_check_interactions(since) ==
    LET pending == get_pending_interactions(since, TRUE)
        page == InteractionPage(since, TRUE)
    IN  /\ Idle
        /\ pending # <<>>
        /\ last_interaction' \in write_text_killed(last_interaction, CursorToWrite(pending))
        /\ last' = Event("interactions", TRUE, last_interaction, since, page, pending,
                         TRUE, "killed", FALSE, 0, 0, NoPoll)
        /\ prior' = NoPoll
        /\ surfaced' = Surface("interactions", pending)
        /\ UNCHANGED <<remote, now, last_read, last_send, config, race>>

killed_send_message(force) ==
    /\ Idle
    /\ ~Unparsable(force)
    /\ ~RateLimited(force)
    /\ Len(remote) < MaxMsgs
    /\ remote' = Append(remote, NewMessage(OwnId))
    /\ last_send' \in write_text_killed(last_send, now)
    /\ last' = Event("send", force, last_send, 0, <<>>, <<>>, TRUE, "killed", TRUE, 0, 0,
                     NoPoll)
    /\ prior' = NoPoll
    /\ UNCHANGED <<now, last_read, last_interaction, config, aux>>

NextCrash ==
    \/ Tick
    \/ Exit
    \/ \E a \in Authors : Create(a)
    \/ \E ok \in BOOLEAN : read_unread(ok)
    \/ \E since \in SinceOpts, ok \in BOOLEAN : check_interactions(since, TRUE, ok)
    \/ \E force \in BOOLEAN, ok \in BOOLEAN : send_message(force, ok)
    \/ killed_read_unread
    \/ \E since \in SinceOpts : killed_check_interactions(since)
    \/ \E force \in BOOLEAN : killed_send_message(force)

InitCrash == Init /\ Filtering
SpecCrash == InitCrash /\ [][NextCrash]_vars

(* ----------------------- deletes and the context page ------------------ *)
Removed(ids) ==
    [i \in 1..Len(remote) |-> IF remote[i].id \in ids THEN [remote[i] EXCEPT !.author = Gone]
                              ELSE remote[i]]
Admin(op, page, out, resp, outcome, ref) ==
    Event(op, FALSE, Absent, 0, page, out, resp, outcome, FALSE, 0, ref, NoPoll)

(* The store answers 204 only for a message the channel holds.             *)
delete_message(message_id, ok) ==
    /\ Idle
    /\ ok => (message_id <= Len(remote) /\ Live(remote[message_id]))
    /\ remote' = IF ok THEN Removed({message_id}) ELSE remote
    /\ last' = Admin("delete", <<>>, <<>>, ok, IF ok THEN "deleted" ELSE "error", message_id)
    /\ prior' = NoPoll
    /\ UNCHANGED <<now, cursors, config, aux>>

delete_recent_bot_messages(ok, deletes) ==
    LET page == get_messages(PageLimit, Absent, ok)
        own(m) == m.author = BOT_ID
        bot_messages == FirstN(SelectSeq(page, own), DeleteCount)
        out == [i \in 1..Len(bot_messages) |-> UnreadResult(bot_messages[i])]
        deleted == IF deletes THEN Ids(bot_messages) ELSE {}
    IN  /\ Idle
        /\ IF BOT_ID = NoId
           THEN /\ last' = Admin("cleanup", <<>>, <<>>, FALSE, "no_bot_id", 0)
                /\ UNCHANGED remote
           ELSE /\ last' = Admin("cleanup", page, out, ok,
                                 IF deleted # {} THEN "deleted" ELSE "none", 0)
                /\ remote' = Removed(deleted)
        /\ prior' = NoPoll
        /\ UNCHANGED <<now, cursors, config, aux>>

get_context_for_claude(ok) ==
    LET page == get_messages(ContextLimit, Absent, ok)
        messages == Reverse(ExcludeSelf(page))
        out == [i \in 1..Len(messages) |-> UnreadResult(messages[i])]
    IN  /\ Idle
        /\ last' = Admin("context", page, out, ok, IF ok THEN "ok" ELSE "fetch_error", 0)
        /\ prior' = NoPoll
        /\ UNCHANGED <<remote, now, cursors, config, aux>>

(* The commands one at a time, deletes among them, at one instant of the   *)
(* clock.                                                                  *)
InitFrame == Init /\ Filtering
NextFrame ==
    \/ Exit
    \/ \E a \in Authors : Create(a)
    \/ \E ok \in BOOLEAN : read_unread(ok)
    \/ \E since \in SinceOpts, ok \in BOOLEAN : read_messages(since, ok)
    \/ \E since \in SinceOpts, mark \in BOOLEAN, ok \in BOOLEAN : check_interactions(since, mark, ok)
    \/ \E force \in BOOLEAN, ok \in BOOLEAN : send_message(force, ok)
    \/ \E mid \in ReplyTargets, force \in BOOLEAN, ok \in BOOLEAN : reply_to(mid, force, ok)
    \/ \E mid \in DeleteTargets, ok \in BOOLEAN : delete_message(mid, ok)
    \/ \E ok \in BOOLEAN, deletes \in BOOLEAN : delete_recent_bot_messages(ok, deletes)
    \/ \E ok \in BOOLEAN : get_context_for_claude(ok)

SpecFrame == InitFrame /\ [][NextFrame]_vars

(* The watch loop left to run, with a store that can be reached: the loop  *)
(* goes on from every statement it is at, and of the fetches it repeats,   *)
(* some succeed again and again.                                           *)
InitProgress == Init /\ BOT_ID = OwnId /\ ALLOWED_USERS = EmptyAllow
NextProgress ==
    \/ \E a \in Authors : Create(a)
    \/ watch
    \/ \E response \in {"ok", "status"} : watch_poll(response)
    \/ watch_sleep

SpecProgress ==
    /\ InitProgress
    /\ [][NextProgress]_vars
    /\ WF_vars(watch)
    /\ WF_vars(watch_sleep)
    /\ SF_vars(watch_poll("ok"))

(* ============================== properties ============================= *)
IsSend == last.op \in {"send", "reply"}
MarkingPoll == last.op = "interactions" /\ last.flag

(* C1: after a poll (read_unread on last_read, check_interactions with     *)
(* mark_read on last_interaction) whose fetch step returned a non-empty    *)
(* page, the stored cursor is the id of the most recent message of that    *)
(* page, however many of its messages the filters removed.                 *)
C1_CursorIsLastFetched ==
    /\ (last.op = "unread" /\ last.page # <<>>) => last_read = MaxId(last.page)
    /\ (MarkingPoll /\ last.page # <<>>) => last_interaction = MaxId(last.page)

(* C2, as stated: check_interactions with mark_read, called a second time  *)
(* with no message created in between, returns the empty sequence and      *)
(* leaves last_interaction as the first call left it.                      *)
RepeatedPoll == MarkingPoll /\ last.rep # NoPoll /\ last.rep.since = last.since
C2_SecondPollEmpty ==
    RepeatedPoll => (last.out = <<>> /\ last_interaction = last.before)

(* C2, amended: the same, when the fetch of the first call succeeded and,  *)
(* after a cursor, returned fewer messages than the page limit.            *)
C2_SecondPollEmptyAfterWholeFetch ==
    (RepeatedPoll /\ last.rep.ok /\ ~last.rep.full)
        => (last.out = <<>> /\ last_interaction = last.before)
C2_Witness ==
    /\ RepeatedPoll /\ last.rep.ok /\ ~last.rep.full /\ last.rep.wrote
    /\ last.resp
    /\ last.page # <<>>

(* C3: a send or reply without force, while last_send exists and           *)
(* remaining = interval - (now - last_send) > 0, returns rate_limited with *)
(* wait_seconds = remaining, issues no create-call and changes no cursor.  *)
C3_RateLimitRejects ==
    [][(/\ Idle
        /\ last'.op \in {"send", "reply"}
        /\ ~last'.flag
        /\ last_send # Absent
        /\ MIN_SEND_INTERVAL_SECONDS - (now - last_send) > 0)
       => (/\ last'.outcome = "rate_limited"
           /\ last'.wait = MIN_SEND_INTERVAL_SECONDS - (now - last_send)
           /\ ~last'.posted
           /\ UNCHANGED <<remote, cursors>>)]_vars
C3_Witness ==
    /\ last.op = "reply" /\ last.outcome = "rate_limited" /\ last.wait = 1
    /\ last_read # Absent /\ last_interaction # Absent

(* C4: a send or reply whose create-call fails returns an error and leaves *)
(* last_send (and the rest of the stored state) as it was, forced or not,  *)
(* so the next attempt meets the gate of the last successful send.         *)
C4_FailedSendKeepsCursor ==
    [][(Idle /\ last'.op \in {"send", "reply"} /\ last'.posted /\ ~last'.resp)
       => (/\ last'.outcome = "error"
           /\ UNCHANGED <<remote, now, cursors>>)]_vars
C4_Witness ==
    /\ IsSend /\ last.flag /\ last.outcome = "error"
    /\ last.before # Absent /\ last.before < now /\ last_send = last.before

(* C5: with force, a send or reply is never rate limited: it always issues *)
(* the create-call, and last_send becomes the current instant when the     *)
(* call succeeds and stays as it was when it fails.                        *)
C5_ForceBypassesGate ==
    (IsSend /\ last.flag)
        => (/\ last.outcome # "rate_limited"
            /\ last.posted
            /\ last.resp => last_send = now
            /\ ~last.resp => last_send = last.before)
C5_Witness ==
    /\ last.op = "send" /\ last.flag /\ last.outcome = "sent"
    /\ last.before # Absent
    /\ MIN_SEND_INTERVAL_SECONDS - (now - last.before) > 0

(* C6: with BOT_ID configured, no message authored by BOT_ID is in what a  *)
(* poll returns (read_unread, get_pending_interactions), for every         *)
(* allow-list and with or without a stored cursor.                         *)
C6_SelfExcluded ==
    (last.op \in {"unread", "interactions"} /\ BOT_ID # NoId)
        => \A i \in 1..Len(last.out) : last.out[i].author_id # BOT_ID
SelfInPage == \E i \in 1..Len(last.page) : last.page[i].author = BOT_ID
C6_Witness ==
    /\ last.op = "interactions" /\ BOT_ID # NoId /\ DOMAIN ALLOWED_USERS = {}
    /\ last.before # Absent
    /\ SelfInPage
    /\ last.out # <<>>

(* C7: a non-self message of the page of get_pending_interactions is       *)
(* returned iff the allow-list is empty or holds its author; nothing else  *)
(* is returned; an author of the allow-list is labelled with the name the  *)
(* allow-list gives, any other with the message's own display name.        *)
IsSelf(a) == BOT_ID # NoId /\ a = BOT_ID
OwnName(a) == IF GlobalName[a] # "" THEN GlobalName[a] ELSE Username[a]
C7_AllowListGates ==
    last.op = "interactions" =>
        /\ \A i \in 1..Len(last.page) :
              ~IsSelf(last.page[i].author) =>
                  ((\E j \in 1..Len(last.out) : last.out[j].id = last.page[i].id)
                     <=> (DOMAIN ALLOWED_USERS = {}
                            \/ last.page[i].author \in DOMAIN ALLOWED_USERS))
        /\ \A j \in 1..Len(last.out) :
              /\ \E i \in 1..Len(last.page) :
                    /\ last.page[i].id = last.out[j].id
                    /\ last.page[i].author = last.out[j].author_id
              /\ last.out[j].author =
                    IF last.out[j].author_id \in DOMAIN ALLOWED_USERS
                    THEN ALLOWED_USERS[last.out[j].author_id]
                    ELSE OwnName(last.out[j].author_id)
C7_Witness ==
    /\ last.op = "interactions" /\ DOMAIN ALLOWED_USERS # {}
    /\ \E i \in 1..Len(last.page) : last.page[i].author = "u99"
    /\ Len(last.out) = 1 /\ last.out[1].author_id = "u42" /\ last.out[1].author = "Alice"

(* C8: with no last_read, read_unread fetches the default page (the newest *)
(* DefaultLimit messages), returns its non-self messages oldest first, and *)
(* stores the id of the newest message of the page in last_read, also when *)
(* that message is the bridge's own.                                       *)
Ascending(out) == \A i, j \in 1..Len(out) : i < j => out[i].id < out[j].id
C8_FirstPoll ==
    (last.op = "unread" /\ last.before = Absent /\ last.resp /\ remote # <<>>)
        => /\ Ids(last.page) = Ids(LastN(remote, DefaultLimit))
           /\ Ids(last.out) = {last.page[i].id : i \in {k \in 1..Len(last.page) :
                                                  ~IsSelf(last.page[k].author)}}
           /\ Ascending(last.out)
           /\ last_read = MaxId(last.page)

(* C9: a message that the fetch step of a cursor-advancing poll returned   *)
(* is not returned by the fetch step of a later poll on the same cursor:   *)
(* in particular not by the poll that runs next, whose fetch step returns  *)
(* the page computed in the state this poll leaves.                        *)
C9_NeverRefetched ==
    [][/\ (Idle /\ last'.op = "unread")
          => Ids(last'.page) \cap Ids(UnreadPage(TRUE))' = {}
       /\ \A since \in SinceOpts :
             (Idle /\ last'.op = "interactions" /\ last'.flag /\ last'.since = since)
                => Ids(last'.page) \cap Ids(InteractionPage(since, TRUE))' = {}]_vars

(* C10: no command moves a stored cursor backwards: last_read and          *)
(* last_interaction, once set, stay set and only change to a higher id;    *)
(* last_send only to a later instant.                                      *)
C10_CursorsNeverRegress ==
    [][/\ last_read # Absent => (last_read' # Absent /\ last_read' >= last_read)
       /\ last_interaction # Absent
             => (last_interaction' # Absent /\ last_interaction' >= last_interaction)
       /\ last_send # Absent => (last_send' # Absent /\ last_send' >= last_send)]_vars
C10_Witness ==
    /\ last.op = "read" /\ last.before # Absent /\ last_read > last.before
    /\ last_interaction # Absent /\ last_send # Absent

(* C14: reply_to passes the gate of send_message.  A reply that is rate     *)
(* limited issues no create-call; one that proceeds issues one create-call  *)
(* whose message_reference is the target id (a send carries none); a send   *)
(* or reply that succeeds sets last_send to the current instant, and from   *)
(* that state on, while the gate stays closed, a send and a reply without   *)
(* force are both rejected.  The content is an opaque string handed to the  *)
(* create-call as given.                                                    *)
C14_ReplySharesGate ==
    [][(Idle /\ last'.op \in {"send", "reply"}) =>
         /\ (~last'.flag /\ RateLimited(FALSE))
               => (/\ last'.outcome = "rate_limited"
                   /\ ~last'.posted
                   /\ UNCHANGED <<remote, last_send>>)
         /\ last'.posted
               => (/\ Len(remote') = Len(remote) + (IF last'.resp THEN 1 ELSE 0)
                   /\ last'.ref \in (IF last'.op = "reply" THEN ReplyTargets ELSE {0})
                   /\ (last'.resp /\ last'.op = "reply") => last'.ref <= Len(remote))
         /\ last'.outcome = "sent" => (last_send' = now /\ RateLimited(FALSE)')]_vars
C14_Witness ==
    /\ last.op = "reply" /\ ~last.flag /\ last.outcome = "sent" /\ last.ref = 2
    /\ last.before # Absent /\ last_send = now

(* C16: with a non-empty allow-list, every message read_unread returns has  *)
(* an author that is a key of the allow-list.                               *)
C16_UnreadAllowListed ==
    (last.op = "unread" /\ DOMAIN ALLOWED_USERS # {})
        => \A i \in 1..Len(last.out) : last.out[i].author_id \in DOMAIN ALLOWED_USERS

(* C18: a send or reply without force that issued the create-call started   *)
(* at least MIN_SEND_INTERVAL_SECONDS after the instant in last_send, the   *)
(* instant of the last send or reply that succeeded; so two sends that      *)
(* succeeded closer together than the interval end with a forced one.       *)
C18_SendsSpaced ==
    /\ (IsSend /\ ~last.flag /\ last.posted /\ last.before # Absent)
          => now - last.before >= MIN_SEND_INTERVAL_SECONDS
    /\ (IsSend /\ last.outcome = "sent" /\ last.before # Absent
               /\ now - last.before < MIN_SEND_INTERVAL_SECONDS)
          => last.flag
C18_Witness ==
    /\ last.op = "send" /\ ~last.flag /\ last.outcome = "sent"
    /\ last.before # Absent /\ now - last.before = MIN_SEND_INTERVAL_SECONDS

(* C12: a fetch that fails, by a status other than 200 or by the store     *)
(* being out of reach, gives the poll of that cycle an empty result and    *)
(* leaves last_read as it was, and the watch loop goes on: the loop is     *)
(* over only when it was interrupted.                                      *)
C12_FetchFailureNotFatal ==
    /\ (Watching /\ last.outcome \in {"fetch_error", "traceback"})
          => (last.out = <<>> /\ last_read = last.before)
    /\ (Watching /\ Ended) => last.outcome = "interrupted"

(* C17: while the watch loop runs, every message that is not the bridge's  *)
(* own and has an id above the stored last_read is returned by a poll of   *)
(* the loop, sooner or later.                                              *)
C17_EveryMessageSurfaced ==
    \A k \in 1..MaxMsgs :
        (/\ Watching
         /\ last_read # Absent
         /\ k > last_read
         /\ \E i \in 1..Len(remote) : remote[i].id = k /\ remote[i].author # BOT_ID)
        ~> (Watching /\ k \in Ids(last.out))

(* C13: what a poll returns (read_unread, get_pending_interactions) is in  *)
(* strictly ascending order of message id, without a cursor, when the      *)
(* store answers newest first, and with a cursor, when the store answers   *)
(* the page after the cursor oldest first.                                 *)
C13_PollOutputAscending ==
    (last.op \in {"unread", "interactions"}) => Ascending(last.out)

(* C11: a process killed while it writes a cursor file leaves the file     *)
(* with the old or the new value: no cursor file is ever empty, and no     *)
(* send meets a last_send it cannot parse.                                 *)
C11_CursorFilesWhole ==
    /\ last_read # Empty
    /\ last_interaction # Empty
    /\ last_send # Empty
    /\ IsSend => last.outcome # "traceback"

(* C15: nothing keeps a second poll from starting while the first is       *)
(* between its read and its write of the cursor file, and only then do two *)
(* polls on one cursor return the same message or leave the cursor file    *)
(* below an id that was written to it.                                     *)
Duplicate ==
    /\ race.op[1] = race.op[2]
    /\ \A p \in Procs : race.pc[p] \in {"write", "done"}
    /\ Ids(race.msgs[1]) \cap Ids(race.msgs[2]) # {}
LostWrite ==
    \/ last_read < race.high.unread
    \/ last_interaction < race.high.interactions
C15_RaceUnlocked ==
    /\ \A p \in Procs, q \in Procs :
          (p # q /\ race.pc[p] \in {"fetch", "write"} /\ race.pc[q] = "off")
             => ENABLED race_start(q, race.op[p])
    /\ (Duplicate \/ LostWrite) => race.overlapped
C15_Witness == Duplicate /\ LostWrite /\ race.op[1] = "interactions"

(* C19: a poll that advances a cursor (read_unread; check_interactions     *)
(* with mark_read) returns no id that an earlier poll on the same cursor   *)
(* returned.                                                               *)
C19_NoDuplicateDelivery ==
    [][/\ (Idle /\ last'.op = "unread")
          => Ids(last'.out) \cap surfaced.unread = {}
       /\ (Idle /\ last'.op = "interactions" /\ last'.flag)
          => Ids(last'.out) \cap surfaced.interactions = {}]_vars
C19_Witness ==
    /\ last.op = "interactions" /\ last.flag /\ last.out # <<>>
    /\ surfaced.interactions # Ids(last.out)
    /\ Cardinality(surfaced.unread) >= 2

(* C20: a command writes no cursor file but its own: check_interactions    *)
(* only last_interaction, and none without mark_read; read_unread and      *)
(* read_messages only last_read; send_message and reply_to only last_send; *)
(* delete_message, delete_recent_bot_messages and get_context_for_claude   *)
(* none.                                                                   *)
C20_OwnCursorOnly ==
    [][Idle =>
         /\ last'.op = "interactions"
               => (/\ UNCHANGED <<last_read, last_send>>
                   /\ ~last'.flag => UNCHANGED last_interaction)
         /\ last'.op \in {"unread", "read"} => UNCHANGED <<last_interaction, last_send>>
         /\ last'.op \in {"send", "reply"} => UNCHANGED <<last_read, last_interaction>>
         /\ last'.op \in {"delete", "cleanup", "context"} => UNCHANGED cursors]_vars
C20_Witness ==
    /\ last.op = "cleanup" /\ last.outcome = "deleted"
    /\ last_read # Absent /\ last_interaction # Absent /\ last_send # Absent
    /\ \E i \in 1..Len(remote) : ~Live(remote[i]) /\ remote[i].id = last_interaction
====
